---- MODULE Spec2Model ----
(***************************************************************************)
(* Model of pwgen.py: one run of pwgen().  A Python string is a sequence   *)
(* of one-character strings; Python indices are 0-based and are kept so in *)
(* the variables (pos, pi, si), the sequences themselves are 1-based.      *)
(* Python rebinds pi and pw; the model keeps both values apart:            *)
(*   pi, pw   the capitalisation index (line 65) and string (line 72)      *)
(*   si, fpw  the insertion index (line 76) and final password (line 85)   *)
(***************************************************************************)
EXTENDS Integers, Sequences, FiniteSets

VARIABLES pc, readable, wlist, words, phrase, hphrase, ch, pos, pi, pw,
          si, symbol, fpw, xpw, op, output

vars == <<pc, readable, wlist, words, phrase, hphrase, ch, pos, pi, pw,
          si, symbol, fpw, xpw, op, output>>

\* ---------------------------------------------------------------- bounds
\* longest word list read from wordlist.txt
MaxWords == 1
\* number of the 15 draws that may differ from the character drawn most
MaxOdd == 1

\* ------------------------------------------------------- program constants
NumWords == 4
SelLen == 15
BlockLen == 4
DigestLen == 64

capl == <<"a","c","d","e","f","g","h","j","k","l","m","n","p","q","r","s",
          "t","u","v","w","x","y","z">>

symbols == <<"=","-","!","$","%","^","&","*","(",")","{","}","[","]">>

\* ----------------------------------------------------------- str helpers
Range(s) == {s[i] : i \in 1..Len(s)}

Min(a, b) == IF a < b THEN a ELSE b

\* s[a:b] for 0 <= a, 0 <= b (the only slices pwgen takes)
PySlice(s, a, b) == SubSeq(s, a + 1, Min(b, Len(s)))

\* s[a:]
PyFrom(s, a) == SubSeq(s, a + 1, Len(s))

\* s.index(c): the 0-based index of the first occurrence of c
PyIndex(s, c) == (CHOOSE i \in 1..Len(s) :
                      s[i] = c /\ \A j \in 1..(i - 1) : s[j] # c) - 1

LowerCase == <<"a","b","c","d","e","f","g","h","i","j","k","l","m","n","o",
               "p","q","r","s","t","u","v","w","x","y","z">>

UpperCase == <<"A","B","C","D","E","F","G","H","I","J","K","L","M","N","O",
               "P","Q","R","S","T","U","V","W","X","Y","Z">>

\* c.upper() for a one-character string
Upper(c) == IF c \in Range(LowerCase)
            THEN UpperCase[CHOOSE i \in 1..26 : LowerCase[i] = c]
            ELSE c

Whitespace == {" ", "\n", "\t", "\r"}

\* word.rstrip()
RECURSIVE RStrip(_)
RStrip(w) == IF w # <<>> /\ w[Len(w)] \in Whitespace
             THEN RStrip(SubSeq(w, 1, Len(w) - 1))
             ELSE w

\* sep.join(parts)
RECURSIVE Join(_, _)
Join(sep, parts) == IF parts = <<>> THEN <<>>
                    ELSE IF Len(parts) = 1 THEN parts[1]
                    ELSE parts[1] \o sep \o Join(sep, Tail(parts))

\* random.choice(s): the values it can return (IndexError when s is empty)
Choice(s) == Range(s)

\* random.randint(a, b): both ends included
RandInt(a, b) == a..b

\* ----------------------------------------------------------- environment
\* the lines wordlist.txt can hold, each with its trailing newline
Lines == {<<"w", " ", "\n">>}

WordLists == UNION {[1..n -> Lines] : n \in 0..MaxWords}

HexDigits == {"0","1","2","3","4","5","6","7","8","9","a","b","c","d","e","f"}

\* digests are abstracted to 64-character hex strings that repeat a pattern
DigestPatterns == {<<"a">>, <<"7">>, <<"0", "a">>, <<"a", "c">>,
                   <<"9", "b">>, <<"b", "e">>, <<"3", "d", "f">>}

Repeat(p) == [i \in 1..DigestLen |-> p[((i - 1) % Len(p)) + 1]]

\* hashlib.sha256(phrase.encode()).hexdigest(): SHA-256 is not computed; the
\* digest of a phrase is any of the 64-character hex strings of
\* DigestPatterns (all one letter, all one digit, digits and letters mixed,
\* letters in and out of capl)
Sha256Hex(p) == {Repeat(d) : d \in DigestPatterns}

OddSets == {D \in SUBSET (1..SelLen) : Cardinality(D) <= MaxOdd}

\* random.choices(h, k=15): 15 draws with replacement from the characters of
\* h, explored for the draws that differ from one character at OddSets only
Choices15(h) ==
    UNION {{[i \in 1..SelLen |-> IF i \in D THEN g[i] ELSE b] :
               b \in Range(h), g \in [D -> Range(h)]} : D \in OddSets}

\* ------------------------------------------------------------- the pipeline
\* pos = [ch.index(c) for c in ch if c in capl]
RECURSIVE PosFrom(_, _)
PosFrom(s, k) == IF k > Len(s) THEN <<>>
                 ELSE IF s[k] \in Range(capl)
                      THEN <<PyIndex(s, s[k])>> \o PosFrom(s, k + 1)
                      ELSE PosFrom(s, k + 1)

Pos(s) == PosFrom(s, 1)

\* lines 69-72: split at the chosen letter, capitalise it, re-combine
Capitalised(s, i) ==
    LET left == IF i > 0 THEN PySlice(s, 0, i - 1) ELSE <<>>
        c == Upper(s[i + 1])
        right == IF i < Len(s) - 1 THEN PyFrom(s, i + 1) ELSE <<>>
    IN  left \o <<c>> \o right

\* line 76: the insertion indices random.randint can return
InsertRange(s) == RandInt(0, Len(s) - 1)

\* lines 79-85: slice at the insertion index and put the symbol between
Inserted(s, i, sym) ==
    LET left == IF i > 0 THEN PySlice(s, 0, i) ELSE <<>>
        right == IF i < Len(s) - 1 THEN PyFrom(s, i) ELSE <<>>
    IN  left \o <<sym>> \o right

\* range(0, n, step)
RECURSIVE PyRange(_, _, _)
PyRange(a, n, step) == IF a >= n THEN <<>>
                       ELSE <<a>> \o PyRange(a + step, n, step)

\* blocks cut one character short: pw[i:i + 3]
BlocksShort(s) == LET r == PyRange(0, Len(s), BlockLen)
                  IN  [k \in 1..Len(r) |-> PySlice(s, r[k], r[k] + BlockLen - 1)]

\* line 88: xpw = [pw[i:i + 4] for i in range(0, len(pw), 4)]
Blocks(s) == LET r == PyRange(0, Len(s), BlockLen)
             IN  [k \in 1..Len(r) |-> PySlice(s, r[k], r[k] + BlockLen)]

\* line 91: op = " ".join(xpw)
Display(b) == Join(<<" ">>, b)

Init ==
    /\ pc = "open"
    /\ readable \in BOOLEAN
    /\ wlist = <<>>
    /\ words = <<>>
    /\ phrase = <<>>
    /\ hphrase = <<>>
    /\ ch = <<>>
    /\ pos = <<>>
    /\ pi = 0
    /\ pw = <<>>
    /\ si = 0
    /\ symbol = ""
    /\ fpw = <<>>
    /\ xpw = <<>>
    /\ op = <<>>
    /\ output = <<>>

\* lines 47-48: wordlist.txt is read into a list of lines
ReadWordlist ==
    /\ pc = "open"
    /\ readable
    /\ wlist' \in WordLists
    /\ pc' = "pick"
    /\ UNCHANGED <<readable, words, phrase, hphrase, ch, pos, pi, pw, si,
                   symbol, fpw, xpw, op, output>>

\* line 47: open() raises when wordlist.txt is missing or unreadable
ReadWordlistFail ==
    /\ pc = "open"
    /\ ~readable
    /\ pc' = "failed"
    /\ UNCHANGED <<readable, wlist, words, phrase, hphrase, ch, pos, pi, pw,
                   si, symbol, fpw, xpw, op, output>>

\* lines 51-57: four words drawn with replacement, stripped, joined, hashed
HashPhrase ==
    /\ pc = "pick"
    /\ wlist # <<>>
    /\ \E idx \in [1..NumWords -> 1..Len(wlist)] :
          /\ words' = [k \in 1..NumWords |-> RStrip(wlist[idx[k]])]
          /\ phrase' = Join(<<" ">>, words')
          /\ hphrase' \in Sha256Hex(phrase')
    /\ pc' = "select"
    /\ UNCHANGED <<readable, wlist, ch, pos, pi, pw, si, symbol, fpw, xpw,
                   op, output>>

\* line 51: random.choices raises IndexError on an empty list
PickWordsFail ==
    /\ pc = "pick"
    /\ wlist = <<>>
    /\ pc' = "failed"
    /\ UNCHANGED <<readable, wlist, words, phrase, hphrase, ch, pos, pi, pw,
                   si, symbol, fpw, xpw, op, output>>

\* lines 60-64: the 15 characters and the candidate indices
SelectChars ==
    /\ pc = "select"
    /\ ch' \in Choices15(hphrase)
    /\ pos' = Pos(ch')
    /\ pc' = "choose"
    /\ UNCHANGED <<readable, wlist, words, phrase, hphrase, pi, pw, si,
                   symbol, fpw, xpw, op, output>>

\* index 0 taken when there is no candidate, in place of the IndexError
CapitaliseLetterDefault ==
    /\ pc = "choose"
    /\ pi' \in (IF pos = <<>> THEN {0} ELSE Choice(pos))
    /\ pw' = Capitalised(ch, pi')
    /\ pc' = "symbol"
    /\ UNCHANGED <<readable, wlist, words, phrase, hphrase, ch, pos, si,
                   symbol, fpw, xpw, op, output>>

\* lines 65-72: one candidate is chosen and the letter there capitalised
CapitaliseLetter ==
    /\ pc = "choose"
    /\ pos # <<>>
    /\ pi' \in Choice(pos)
    /\ pw' = Capitalised(ch, pi')
    /\ pc' = "symbol"
    /\ UNCHANGED <<readable, wlist, words, phrase, hphrase, ch, pos, si,
                   symbol, fpw, xpw, op, output>>

\* line 65: random.choice raises IndexError on an empty pos
ChooseLetterFail ==
    /\ pc = "choose"
    /\ pos = <<>>
    /\ pc' = "failed"
    /\ UNCHANGED <<readable, wlist, words, phrase, hphrase, ch, pos, pi, pw,
                   si, symbol, fpw, xpw, op, output>>

\* lines 76-85: an index and a symbol are drawn and the symbol inserted
InsertSymbol ==
    /\ pc = "symbol"
    /\ si' \in InsertRange(pw)
    /\ symbol' \in Choice(symbols)
    /\ fpw' = Inserted(pw, si', symbol')
    /\ pc' = "format"
    /\ UNCHANGED <<readable, wlist, words, phrase, hphrase, ch, pos, pi, pw,
                   xpw, op, output>>

\* lines 88-91: the password is cut into blocks joined by single spaces
Format ==
    /\ pc = "format"
    /\ xpw' = Blocks(fpw)
    /\ op' = Display(xpw')
    /\ pc' = "print"
    /\ UNCHANGED <<readable, wlist, words, phrase, hphrase, ch, pos, pi, pw,
                   si, symbol, fpw, output>>

\* line 94: print(op)
WriteLine ==
    /\ pc = "print"
    /\ output' = Append(output, op)
    /\ pc' = "done"
    /\ UNCHANGED <<readable, wlist, words, phrase, hphrase, ch, pos, pi, pw,
                   si, symbol, fpw, xpw, op>>

Next ==
    \/ ReadWordlist
    \/ ReadWordlistFail
    \/ HashPhrase
    \/ PickWordsFail
    \/ SelectChars
    \/ CapitaliseLetter
    \/ ChooseLetterFail
    \/ InsertSymbol
    \/ Format
    \/ WriteLine

Spec == Init /\ [][Next]_vars

\* ------------------------------------------------------------ properties
StripSpaces(s) == SelectSeq(s, LAMBDA c : c # " ")

Lower(c) == IF c \in Range(UpperCase)
            THEN LowerCase[CHOOSE i \in 1..26 : UpperCase[i] = c]
            ELSE c

Where(s, S) == {j \in 1..Len(s) : s[j] \in S}

RemoveAt(s, j) == SubSeq(s, 1, j - 1) \o SubSeq(s, j + 1, Len(s))

RECURSIVE Flatten(_)
Flatten(b) == IF b = <<>> THEN <<>> ELSE b[1] \o Flatten(Tail(b))

Succeeded == pc = "done"

\* C1: the printed password, its separating spaces removed, has length
\* exactly 16 on every successful run.
Length16 ==
    Succeeded => Len(StripSpaces(output[1])) = SelLen + 1

\* C2: exactly one character of the final password is an uppercase letter,
\* and lowercased it belongs to capl.
OneUppercase ==
    Succeeded =>
        /\ Cardinality(Where(fpw, Range(UpperCase))) = 1
        /\ \A j \in Where(fpw, Range(UpperCase)) : Lower(fpw[j]) \in Range(capl)

\* C3: exactly one character of the final password is a symbol, the others
\* number exactly 15 and each is a character of 0-9a-f or an uppercase letter.
OneSymbolFifteenOthers ==
    Succeeded =>
        /\ Cardinality(Where(fpw, Range(symbols))) = 1
        /\ Len(fpw) - Cardinality(Where(fpw, Range(symbols))) = SelLen
        /\ \A j \in 1..Len(fpw) :
              fpw[j] \in Range(symbols) \cup HexDigits \cup Range(UpperCase)

\* C4: output is all-or-nothing: an unreadable word list, an empty word
\* list or a selection without eligible letter ends the run in failure with
\* nothing printed; a line is printed only on a run without these errors,
\* and then exactly one line.
AllOrNothing ==
    /\ Len(output) <= 1
    /\ (pc = "failed" => output = <<>>)
    /\ (Succeeded => Len(output) = 1)
    /\ (~readable /\ pc # "open" => pc = "failed")
    /\ (wlist = <<>> /\ pc \notin {"open", "pick"} => pc = "failed")
    /\ (Range(ch) \cap Range(capl) = {}
          /\ pc \notin {"open", "pick", "select", "choose"} => pc = "failed")
    /\ (output # <<>> =>
          /\ readable
          /\ wlist # <<>>
          /\ Range(ch) \cap Range(capl) # {}
          /\ output = <<op>>)

\* a selection without eligible letter has ended the run with nothing printed
AllOrNothingWitness ==
    /\ pc = "failed"
    /\ Len(ch) = SelLen
    /\ Range(ch) \cap Range(capl) = {}
    /\ output = <<>>

\* C5: the formatter cuts the password left to right into non-overlapping
\* blocks of 4 characters, only the last possibly shorter, joined by single
\* spaces, and removing the spaces gives the password back.
FormatterRoundTrip ==
    pc \in {"print", "done"} =>
        /\ StripSpaces(op) = fpw
        /\ Flatten(xpw) = fpw
        /\ \A k \in 1..Len(xpw) :
              \/ Len(xpw[k]) = BlockLen
              \/ k = Len(xpw) /\ Len(xpw[k]) \in 1..(BlockLen - 1)
        /\ Len(op) = Len(fpw) + Len(xpw) - 1
        /\ \A j \in 1..Len(op) : (op[j] = " ") <=> (j % (BlockLen + 1) = 0)

\* a password whose last block is short has been formatted
FormatterWitness ==
    /\ pc = "print"
    /\ Len(fpw) % BlockLen # 0
    /\ Len(xpw[Len(xpw)]) < BlockLen
    /\ StripSpaces(op) = fpw

\* C6: on every run that goes on to capitalise, the selection holds at
\* least two alphabetic characters.
TwoLetters ==
    pc \in {"symbol", "format", "print", "done"} =>
        Cardinality(Where(ch, Range(LowerCase) \cup Range(UpperCase))) >= 2

\* C7: the capitalised string has length 15, holds at pi the uppercase form
\* of the selection's character there and at every other position the
\* selection's character.
CapitaliseInPlace ==
    pc \in {"symbol", "format", "print", "done"} =>
        /\ Len(pw) = SelLen
        /\ pw[pi + 1] = Upper(ch[pi + 1])
        /\ \A j \in 1..SelLen : j # pi + 1 => pw[j] = ch[j]

\* C8: the final password is one character longer than the capitalised
\* string and deleting the inserted symbol gives the capitalised string
\* back; index 0 prepends, the last index of the range appends.
InsertKeepsAll ==
    pc \in {"format", "print", "done"} =>
        /\ Len(fpw) = Len(pw) + 1
        /\ fpw[si + 1] = symbol
        /\ RemoveAt(fpw, si + 1) = pw
        /\ (si = 0 => fpw = <<symbol>> \o pw)
        /\ ((\A i \in InsertRange(pw) : i <= si) => fpw = pw \o <<symbol>>)

\* C9: the candidates for capitalisation are all the index positions of
\* the selection that hold an eligible letter, repeated letters included.
AllEligiblePositions ==
    pc = "choose" =>
        Range(pos) = {i \in 0..(SelLen - 1) : ch[i + 1] \in Range(capl)}

\* C10: the insertion index ranges over every value from 0 to the length
\* of the capitalised string inclusive.
InsertAnywhere ==
    pc = "symbol" => InsertRange(pw) = 0..Len(pw)

====
